---- MODULE Spec2Model ----
(***************************************************************************)
(* The create-order edge function (supabase/functions/create-order) over   *)
(* the products / orders / order_items tables of the storefront schema.    *)
(* Every awaited store call of the handler is one atomic step; the local   *)
(* computation that follows a store call is part of the same step or of a  *)
(* step of its own that touches no table.  Money is counted in cents, the  *)
(* precision of the numeric(10, 2) columns.                                *)
(***************************************************************************)
EXTENDS Integers, Sequences, FiniteSets, TLC

\* ------------------------------------------------------------------ bounds
MaxStock == 2
MaxQty == 2
MaxItems == 2
MaxConcItems == 1
MaxTextLen == 2

\* ----------------------------------------------------------------- domains
Procs == {"inv1", "inv2"}
Catalog == {"A", "B"}
ProductIds == Catalog \cup {"X"}
Quantities == {-1} \cup (0..MaxQty)
Tokens == {"none", "bad", "tok_u1", "tok_u2"}
Bodies == {"items", "no_items", "malformed"}
ClaimedIds == {"none", "u1"}
PriceValues == {7999, 19999}
SeedPrice == [p \in Catalog |-> IF p = "A" THEN 7999 ELSE 19999]

Entries == [product_id : ProductIds, quantity : Quantities]

RECURSIVE SeqsUpTo(_, _)
SeqsUpTo(S, n) ==
  IF n = 0 THEN {<<>>}
  ELSE LET shorter == SeqsUpTo(S, n - 1)
       IN shorter \cup {Append(s, e) : s \in {t \in shorter : Len(t) = n - 1}, e \in S}

\* A request: the bearer token, the kind of body (a JSON object with an
\* items array, a JSON object without one, or a body that does not parse),
\* the items, and a user id the caller put into the body.
Requests ==
  [token : Tokens, body : {"items"}, items : SeqsUpTo(Entries, MaxItems), claimed : ClaimedIds]
  \cup [token : Tokens, body : Bodies \ {"items"}, items : {<<>>}, claimed : ClaimedIds]

\* Requests of the contended runs: two customers, each authenticated by a
\* token of their own, buying catalog products in positive quantities.
ConcEntries == [product_id : Catalog, quantity : 1..MaxQty]
ConcToken(i) == IF i = "inv1" THEN "tok_u1" ELSE "tok_u2"
ConcRequests(i) ==
  [token : {ConcToken(i)}, body : {"items"},
   items : SeqsUpTo(ConcEntries, MaxConcItems) \ {<<>>}, claimed : {"none"}]

\* Requests of the runs with a changing catalog price: one authenticated
\* customer buying catalog products in positive quantities.
PriceRequests ==
  [token : {"tok_u1"}, body : {"items"},
   items : SeqsUpTo(ConcEntries, MaxItems) \ {<<>>}, claimed : {"none"}]

\* Requests whose entries carry, next to product_id and quantity, a price and
\* a stock figure of the caller's own (the cart of the browsing client holds
\* whole product rows): one authenticated customer, catalog products,
\* positive quantities.
CallerFigures == {[price |-> 1, stock |-> 99], [price |-> 99999, stock |-> 0]}
FigureEntries ==
  {[product_id |-> p, quantity |-> q, price |-> f.price, stock |-> f.stock] :
     p \in Catalog, q \in 1..MaxQty, f \in CallerFigures}
FigureRequests ==
  [token : {"tok_u1"}, body : {"items"},
   items : SeqsUpTo(FigureEntries, MaxItems) \ {<<>>}, claimed : {"none"}]

\* Texts of the quantity input: what e.target.value may hold.
TextChars == {"-", ".", "0", "1", "2"}
TypedTexts == SeqsUpTo(TextChars, MaxTextLen)

\* Carts of the cart page: catalog products in positive quantities.
Carts == SeqsUpTo(ConcEntries, MaxConcItems)
ClientUsers == {"none", "u1"}
\* What supabase.auth.getSession() resolves to: no session, a session whose
\* access token the function rejects, a session with a valid token.
Sessions == {"none", "bad", "tok_u1"}

NoRequest == [token |-> "none", body |-> "items", items |-> <<>>, claimed |-> "none"]
NoProducts == [p \in {} |-> [stock |-> 0, price |-> 0]]
NoOrder == [id |-> 0, user_id |-> "none", total_amount |-> 0, status |-> "none"]
NoProduct == [id |-> "none", stock |-> 0]
NoResponse ==
  [status |-> 0, error |-> "none", product |-> "none", available |-> 0,
   success |-> FALSE, order |-> NoOrder]

\* An error response: { error: ... } with the given status.
Response(status, error) == [NoResponse EXCEPT !.status = status, !.error = error]

\* The success response: { success: true, order }.
SuccessResponse(row) == [NoResponse EXCEPT !.status = 200, !.success = TRUE, !.order = row]

VARIABLES
  stock,        \* products.stock, per product row
  price,        \* products.price, per product row (cents)
  orders,       \* rows of the orders table
  order_items,  \* rows of the order_items table, in insertion order
  nextOrderId,  \* the next generated orders.id
  pc,           \* per invocation: the store call it is about to make
  request,      \* per invocation: bearer token and body items
  user,         \* per invocation: the user resolved by auth.getUser
  products,     \* per invocation: the rows returned by the products select
  totalAmount,  \* per invocation: the computed total
  order,        \* per invocation: id of the inserted order header (0: none)
  idx,          \* per invocation: position of the stock update loop
  resp,         \* per invocation: the response returned
  stock0,       \* history: the stock of the catalog before any invocation
  applied,      \* history: per invocation, the entries whose stock update took effect
  failed,       \* history: per invocation, the writes that returned an error
  touched,      \* history: per invocation, the tables it has read or written
  product,      \* ProductDetails: the loaded product (NoProduct: null)
  detailsLoading, \* ProductDetails: its loading state
  quantity,     \* ProductDetails: the selected quantity
  added,        \* history: the quantities ProductDetails passed to addToCart
  alerted,      \* the last alert shown by a page
  cart,         \* CartContext: the entries of the cart
  cart0,        \* history: the cart when the cart page was opened
  authUser,     \* AuthContext: the user of the client ("none": not logged in)
  session,      \* per handleCheckout run: the access token of its session
  loading,      \* CartPage: its loading state
  cpc,          \* per handleCheckout run: the await it stands at
  page,         \* App: the page shown
  pending,      \* the runs whose fetch has not settled
  delivered,    \* history: the runs whose response arrived and parsed
  cleared       \* history: clearCart was called

details == <<product, detailsLoading, quantity, added>>
checkout == <<cart, cart0, authUser, session, loading, cpc, page, pending, delivered, cleared>>
ui == <<details, alerted, checkout>>

vars == <<stock, price, orders, order_items, nextOrderId, pc, request, user,
          products, totalAmount, order, idx, resp, stock0, applied, failed, touched, ui>>

store == <<stock, price, orders, order_items, nextOrderId>>
locals == <<request, user, products, totalAmount, order, idx>>
history == <<applied, failed, touched>>

\* ------------------------------------------------------- schema constraints
StockAccepted(v) == v >= 0
TotalAccepted(t) == t >= 0
\* A line-item check that looks at the price only.
ItemAcceptedPriceOnly(row) == row.price >= 0

ItemAccepted(row) == row.quantity > 0 /\ row.price >= 0

\* ------------------------------------------------------------ pure helpers
UserOf(token) ==
  IF token = "tok_u1" THEN "u1" ELSE IF token = "tok_u2" THEN "u2" ELSE "none"

\* The authorization checks: a missing header, then a token that resolves
\* to no user.  NoResponse: the caller is authenticated.
AuthFailureHeaderOnly(token) ==
  IF token = "none" THEN Response(401, "MissingAuthorization") ELSE NoResponse

AuthFailure(token) ==
  IF token = "none" THEN Response(401, "MissingAuthorization")
  ELSE IF UserOf(token) = "none" THEN Response(401, "InvalidToken")
  ELSE NoResponse

\* !items || items.length === 0
EmptyCartAbsentOnly(body, items) == body = "no_items"

EmptyCart(body, items) == body = "no_items" \/ Len(items) = 0

\* The user_id of the order header: the id of the user resolved from the
\* token; a user id in the body is not looked at.
OrderUserIdClaimed(req, usr) == IF req.claimed # "none" THEN req.claimed ELSE usr

OrderUserId(req, usr) == usr

NewOrder(id, req, usr, total) ==
  [id |-> id, user_id |-> OrderUserId(req, usr), total_amount |-> total, status |-> "pending"]

Found(prods, id) == id \in DOMAIN prods

SelectProducts(ids) ==
  [p \in (ids \cap Catalog) |-> [stock |-> stock[p], price |-> price[p]]]

ProductIdsOf(items) == {items[k].product_id : k \in 1..Len(items)}

\* A stock check that lets one unit too many through.
InsufficientStockOffByOne(prods, item) == prods[item.product_id].stock + 1 < item.quantity

InsufficientStock(prods, item) == prods[item.product_id].stock < item.quantity

RECURSIVE ValidateFrom(_, _, _)
ValidateFrom(items, prods, k) ==
  IF k > Len(items) THEN NoResponse
  ELSE IF ~Found(prods, items[k].product_id)
       THEN [Response(404, "ProductNotFound") EXCEPT !.product = items[k].product_id]
  ELSE IF InsufficientStock(prods, items[k])
       THEN [Response(400, "InsufficientStock") EXCEPT
               !.product = items[k].product_id,
               !.available = prods[items[k].product_id].stock]
  ELSE ValidateFrom(items, prods, k + 1)

\* A validation that settles every existence check before any stock check.
RECURSIVE MissingFrom(_, _, _)
MissingFrom(items, prods, k) ==
  IF k > Len(items) THEN 0
  ELSE IF ~Found(prods, items[k].product_id) THEN k
  ELSE MissingFrom(items, prods, k + 1)

RECURSIVE ShortFrom(_, _, _)
ShortFrom(items, prods, k) ==
  IF k > Len(items) THEN 0
  ELSE IF Found(prods, items[k].product_id) /\ InsufficientStock(prods, items[k]) THEN k
  ELSE ShortFrom(items, prods, k + 1)

ValidateTwoPass(items, prods) ==
  LET m == MissingFrom(items, prods, 1)
      s == ShortFrom(items, prods, 1)
  IN IF m > 0
       THEN [Response(404, "ProductNotFound") EXCEPT !.product = items[m].product_id]
     ELSE IF s > 0
       THEN [Response(400, "InsufficientStock") EXCEPT
               !.product = items[s].product_id,
               !.available = prods[items[s].product_id].stock]
     ELSE NoResponse

\* A validation that looks at the first entry only.
ValidateFirstOnly(items, prods) == ValidateFrom(SubSeq(items, 1, 1), prods, 1)

Validate(items, prods) == ValidateFrom(items, prods, 1)

RECURSIVE TotalFrom(_, _, _)
TotalFrom(items, prods, k) ==
  IF k > Len(items) THEN 0
  ELSE (IF Found(prods, items[k].product_id)
          THEN prods[items[k].product_id].price * items[k].quantity
          ELSE 0)
       + TotalFrom(items, prods, k + 1)

\* A total that counts every requested product once, at its first entry.
RECURSIVE TotalMergedFrom(_, _, _)
TotalMergedFrom(items, prods, k) ==
  IF k > Len(items) THEN 0
  ELSE (IF Found(prods, items[k].product_id)
           /\ \A j \in 1..(k - 1) : items[j].product_id # items[k].product_id
          THEN prods[items[k].product_id].price * items[k].quantity
          ELSE 0)
       + TotalMergedFrom(items, prods, k + 1)

TotalMerged(items, prods) == TotalMergedFrom(items, prods, 1)

TotalAmount(items, prods) == TotalFrom(items, prods, 1)

\* Quantity asked of product p over all entries of a request.
RECURSIVE AskedFrom(_, _, _)
AskedFrom(items, p, k) ==
  IF k > Len(items) THEN 0
  ELSE (IF items[k].product_id = p THEN items[k].quantity ELSE 0) + AskedFrom(items, p, k + 1)

\* Line items that carry, in every row, the summed quantity of the product.
OrderItemsSummed(items, prods, orderId) ==
  [k \in 1..Len(items) |->
    [order_id |-> orderId,
     product_id |-> items[k].product_id,
     quantity |-> AskedFrom(items, items[k].product_id, 1),
     price |-> prods[items[k].product_id].price]]

\* Line items merged into one row per product, at its first entry.
RECURSIVE MergedFrom(_, _, _, _)
MergedFrom(items, prods, orderId, k) ==
  IF k > Len(items) THEN <<>>
  ELSE (IF \E j \in 1..(k - 1) : items[j].product_id = items[k].product_id
          THEN <<>>
          ELSE <<[order_id |-> orderId,
                  product_id |-> items[k].product_id,
                  quantity |-> AskedFrom(items, items[k].product_id, 1),
                  price |-> prods[items[k].product_id].price]>>)
       \o MergedFrom(items, prods, orderId, k + 1)

OrderItemsMerged(items, prods, orderId) == MergedFrom(items, prods, orderId, 1)

\* Line items priced at the catalog price of the moment of the insert.
OrderItemsLivePrice(items, prods, orderId) ==
  [k \in 1..Len(items) |->
    [order_id |-> orderId,
     product_id |-> items[k].product_id,
     quantity |-> items[k].quantity,
     price |-> price[items[k].product_id]]]

\* Line items priced at the figure the caller attached to the entry.
OrderItemsCallerPrice(items, prods, orderId) ==
  [k \in 1..Len(items) |->
    [order_id |-> orderId,
     product_id |-> items[k].product_id,
     quantity |-> items[k].quantity,
     price |-> IF "price" \in DOMAIN items[k] THEN items[k].price
               ELSE prods[items[k].product_id].price]]

OrderItems(items, prods, orderId) ==
  [k \in 1..Len(items) |->
    [order_id |-> orderId,
     product_id |-> items[k].product_id,
     quantity |-> items[k].quantity,
     price |-> prods[items[k].product_id].price]]

\* The stock update writes the difference computed from the rows read at
\* validation; the products table refuses a negative stock.
WriteStockRelative(tbl, p, readStock, q) == [tbl EXCEPT ![p] = tbl[p] - q]

\* A stock update that stores the quantity instead of the difference.
WriteStockQuantity(tbl, p, readStock, q) == [tbl EXCEPT ![p] = q]

\* A stock update without its filter on the product id.
WriteStockEveryRow(tbl, p, readStock, q) ==
  IF StockAccepted(readStock - q) THEN [x \in DOMAIN tbl |-> readStock - q] ELSE tbl

WriteStock(tbl, p, readStock, q) ==
  IF StockAccepted(readStock - q) THEN [tbl EXCEPT ![p] = readStock - q] ELSE tbl

ItemsOf(orderId) == {k \in 1..Len(order_items) : order_items[k].order_id = orderId}

RemoveItemsOf(rows, orderId) == SelectSeq(rows, LAMBDA r : r.order_id # orderId)

\* ----------------------------------------------- ProductDetails helpers
Max(a, b) == IF a >= b THEN a ELSE b
Min(a, b) == IF a <= b THEN a ELSE b

NaN == [nan |-> TRUE, value |-> 0]
Number(v) == [nan |-> FALSE, value |-> v]

IsDigit(c) == c \in {"0", "1", "2", "3", "4", "5", "6", "7", "8", "9"}
DigitValue(c) ==
  CASE c = "0" -> 0 [] c = "1" -> 1 [] c = "2" -> 2 [] c = "3" -> 3 [] c = "4" -> 4
    [] c = "5" -> 5 [] c = "6" -> 6 [] c = "7" -> 7 [] c = "8" -> 8 [] c = "9" -> 9

\* The value of the decimal digits of t from position k on, up to the first
\* character that is no digit; acc is the value of the digits before k.
RECURSIVE DigitsFrom(_, _, _)
DigitsFrom(t, k, acc) ==
  IF k > Len(t) \/ ~IsDigit(t[k]) THEN acc
  ELSE DigitsFrom(t, k + 1, 10 * acc + DigitValue(t[k]))

\* parseInt(text): an optional sign, then the longest run of decimal digits;
\* NaN when there is no digit at that place.
ParseInt(t) ==
  LET signed == Len(t) > 0 /\ t[1] \in {"-", "+"}
      start == IF signed THEN 2 ELSE 1
  IN IF start > Len(t) \/ ~IsDigit(t[start]) THEN NaN
     ELSE Number((IF signed /\ t[1] = "-" THEN -1 ELSE 1) * DigitsFrom(t, start, 0))

\* x || 1: NaN and 0 are falsy.
OrOne(x) == IF x.nan \/ x.value = 0 THEN 1 ELSE x.value

\* The guard of handleAddToCart: product && product.stock >= quantity.
SufficientStockLoose(prod, q) == prod.id # "none" /\ prod.stock + 1 >= q

SufficientStock(prod, q) == prod.id # "none" /\ prod.stock >= q

\* The quantity controls and the Add to Cart button are rendered.
ControlsShown == ~detailsLoading /\ product.id # "none"

\* disabled={product.stock === 0}
AddToCartEnabled == product.stock # 0

\* ------------------------------------------------------ CartPage helpers
\* cart.map((item) => ({ product_id: item.product.id, quantity: item.quantity }))
CartOrderItems(c) ==
  [k \in 1..Len(c) |-> [product_id |-> c[k].product_id, quantity |-> c[k].quantity]]

\* A test of the response that takes every parsed response for a success.
CheckoutConfirmedAlways(r) == TRUE

\* response.ok && result.success
CheckoutConfirmed(r) == r.status \in 200..299 /\ r.success

\* A checkout button that is never disabled.
CheckoutEnabledAlways == TRUE

\* disabled={loading}
CheckoutEnabled == ~loading

\* The handleCheckout run that the next click starts.
NextRun == IF cpc["inv1"] = "unused" THEN "inv1" ELSE "inv2"

\* -------------------------------------------------------------------- Init
Init ==
  /\ stock \in [Catalog -> 0..MaxStock]
  /\ price = SeedPrice
  /\ orders = {}
  /\ order_items = <<>>
  /\ nextOrderId = 1
  /\ pc = [i \in Procs |-> "idle"]
  /\ request = [i \in Procs |-> NoRequest]
  /\ user = [i \in Procs |-> "none"]
  /\ products = [i \in Procs |-> NoProducts]
  /\ totalAmount = [i \in Procs |-> 0]
  /\ order = [i \in Procs |-> 0]
  /\ idx = [i \in Procs |-> 0]
  /\ resp = [i \in Procs |-> NoResponse]
  /\ stock0 = stock
  /\ applied = [i \in Procs |-> {}]
  /\ failed = [i \in Procs |-> {}]
  /\ touched = [i \in Procs |-> {}]
  /\ product = NoProduct
  /\ detailsLoading = TRUE
  /\ quantity = 1
  /\ added = {}
  /\ alerted = "none"
  /\ cart = <<>>
  /\ cart0 = <<>>
  /\ authUser = "none"
  /\ session = [i \in Procs |-> "none"]
  /\ loading = FALSE
  /\ cpc = [i \in Procs |-> "unused"]
  /\ page = "home"
  /\ pending = {}
  /\ delivered = {}
  /\ cleared = FALSE

\* ----------------------------------------------------------------- actions
Return(i, r) ==
  /\ pc' = [pc EXCEPT ![i] = "done"]
  /\ resp' = [resp EXCEPT ![i] = r]

\* The POST request r reaches the function.
Arrive(i, r) ==
  /\ pc[i] = "idle"
  /\ request' = [request EXCEPT ![i] = r]
  /\ pc' = [pc EXCEPT ![i] = "auth"]
  /\ UNCHANGED <<store, user, products, totalAmount, order, idx, resp, stock0, history>>

\* A POST request, one of reqs, reaches the function.
Receive(i, reqs) ==
  /\ pc[i] = "idle"
  /\ \E r \in reqs : Arrive(i, r)
  /\ UNCHANGED ui

\* Authorization header check and auth.getUser(token).
Authenticate(i) ==
  /\ pc[i] = "auth"
  /\ UNCHANGED ui
  /\ IF AuthFailure(request[i].token).status # 0
       THEN Return(i, AuthFailure(request[i].token)) /\ UNCHANGED user
       ELSE /\ user' = [user EXCEPT ![i] = UserOf(request[i].token)]
            /\ pc' = [pc EXCEPT ![i] = "parse"]
            /\ UNCHANGED resp
  /\ UNCHANGED <<store, request, products, totalAmount, order, idx, stock0, history>>

\* req.json() and the empty-cart check.
ParseItems(i) ==
  /\ pc[i] = "parse"
  /\ UNCHANGED ui
  /\ IF request[i].body = "malformed"
       THEN \* req.json() throws: the catch answers 500
            Return(i, Response(500, "Exception"))
     ELSE IF EmptyCart(request[i].body, request[i].items)
       THEN Return(i, Response(400, "CartEmpty"))
     ELSE pc' = [pc EXCEPT ![i] = "fetch"] /\ UNCHANGED resp
  /\ UNCHANGED <<store, locals, stock0, history>>

\* The single select on products, then the validation loop and the total.
FetchProducts(i) ==
  /\ pc[i] = "fetch"
  /\ UNCHANGED ui
  /\ touched' = [touched EXCEPT ![i] = @ \cup {"products"}]
  /\ \E ok \in BOOLEAN :
       IF ~ok
         THEN /\ Return(i, Response(500, "FetchFailed"))
              /\ UNCHANGED <<products, totalAmount>>
         ELSE LET prods == SelectProducts(ProductIdsOf(request[i].items))
                  v == Validate(request[i].items, prods)
              IN /\ products' = [products EXCEPT ![i] = prods]
                 /\ IF v.status # 0
                      THEN Return(i, v) /\ UNCHANGED totalAmount
                      ELSE /\ totalAmount' = [totalAmount EXCEPT ![i] =
                                                TotalAmount(request[i].items, prods)]
                           /\ pc' = [pc EXCEPT ![i] = "insert_order"]
                           /\ UNCHANGED resp
  /\ UNCHANGED <<store, request, user, order, idx, stock0, applied, failed>>

\* An orders insert that reports its error after the row was stored.
InsertOrderErrorAfterWrite(i) ==
  /\ pc[i] = "insert_order"
  /\ UNCHANGED ui
  /\ touched' = [touched EXCEPT ![i] = @ \cup {"orders"}]
  /\ \E ok \in BOOLEAN :
       IF TotalAccepted(totalAmount[i])
         THEN /\ orders' = orders \cup {NewOrder(nextOrderId, request[i], user[i],
                                                  totalAmount[i])}
              /\ nextOrderId' = nextOrderId + 1
              /\ order' = [order EXCEPT ![i] = nextOrderId]
              /\ IF ok
                   THEN pc' = [pc EXCEPT ![i] = "insert_items"] /\ UNCHANGED <<resp, failed>>
                   ELSE /\ failed' = [failed EXCEPT ![i] = @ \cup {"orders"}]
                        /\ Return(i, Response(500, "OrderFailed"))
         ELSE /\ failed' = [failed EXCEPT ![i] = @ \cup {"orders"}]
              /\ Return(i, Response(500, "OrderFailed"))
              /\ UNCHANGED <<orders, nextOrderId, order>>
  /\ UNCHANGED <<stock, price, order_items, request, user, products, totalAmount,
                 idx, stock0, applied>>

\* insert into orders ... select().single()
InsertOrder(i) ==
  /\ pc[i] = "insert_order"
  /\ UNCHANGED ui
  /\ touched' = [touched EXCEPT ![i] = @ \cup {"orders"}]
  /\ \E ok \in BOOLEAN :
       IF ok /\ TotalAccepted(totalAmount[i])
         THEN /\ orders' = orders \cup {NewOrder(nextOrderId, request[i], user[i],
                                                  totalAmount[i])}
              /\ nextOrderId' = nextOrderId + 1
              /\ order' = [order EXCEPT ![i] = nextOrderId]
              /\ pc' = [pc EXCEPT ![i] = "insert_items"]
              /\ UNCHANGED <<resp, failed>>
         ELSE /\ failed' = [failed EXCEPT ![i] = @ \cup {"orders"}]
              /\ Return(i, Response(500, "OrderFailed"))
              /\ UNCHANGED <<orders, nextOrderId, order>>
  /\ UNCHANGED <<stock, price, order_items, request, user, products, totalAmount,
                 idx, stock0, applied>>

\* The orderItems map and the multi-row insert into order_items.
InsertOrderItems(i) ==
  /\ pc[i] = "insert_items"
  /\ UNCHANGED ui
  /\ IF \E k \in 1..Len(request[i].items) : ~Found(products[i], request[i].items[k].product_id)
       THEN \* product!.price on an undefined product throws: the catch answers 500
            /\ Return(i, Response(500, "Exception"))
            /\ UNCHANGED <<order_items, idx, failed, touched>>
       ELSE LET rows == OrderItems(request[i].items, products[i], order[i])
            IN /\ touched' = [touched EXCEPT ![i] = @ \cup {"order_items"}]
               /\ \E ok \in BOOLEAN :
                    IF ok /\ \A k \in 1..Len(rows) : ItemAccepted(rows[k])
                      THEN /\ order_items' = order_items \o rows
                           /\ idx' = [idx EXCEPT ![i] = 1]
                           /\ pc' = [pc EXCEPT ![i] = "update_stock"]
                           /\ UNCHANGED <<resp, failed>>
                      ELSE /\ failed' = [failed EXCEPT ![i] = @ \cup {"order_items"}]
                           /\ pc' = [pc EXCEPT ![i] = "delete_order"]
                           /\ UNCHANGED <<order_items, idx, resp>>
  /\ UNCHANGED <<stock, price, orders, nextOrderId, request, user, products,
                 totalAmount, order, stock0, applied>>

\* The compensating delete of the order header; its result is not looked at.
DeleteOrder(i) ==
  /\ pc[i] = "delete_order"
  /\ UNCHANGED ui
  /\ \E ok \in BOOLEAN :
       IF ok
         THEN /\ orders' = {o \in orders : o.id # order[i]}
              /\ order_items' = RemoveItemsOf(order_items, order[i])
              /\ UNCHANGED failed
         ELSE /\ failed' = [failed EXCEPT ![i] = @ \cup {"delete"}]
              /\ UNCHANGED <<orders, order_items>>
  /\ Return(i, Response(500, "OrderItemsFailed"))
  /\ UNCHANGED <<stock, price, nextOrderId, locals, stock0, applied, touched>>

\* One round of the stock update loop; its result is not looked at.  After
\* the last entry the handler answers 200.
UpdateStock(i) ==
  /\ pc[i] = "update_stock"
  /\ UNCHANGED ui
  /\ LET item == request[i].items[idx[i]]
         p == item.product_id
     IN IF Found(products[i], p)
          THEN \E ok \in BOOLEAN :
                 LET tbl == IF ok THEN WriteStock(stock, p, products[i][p].stock, item.quantity)
                                  ELSE stock
                     done == ok /\ StockAccepted(products[i][p].stock - item.quantity)
                 IN /\ stock' = tbl
                    /\ applied' = [applied EXCEPT ![i] = IF done THEN @ \cup {idx[i]} ELSE @]
                    /\ failed' = [failed EXCEPT ![i] = IF done THEN @ ELSE @ \cup {"products"}]
          ELSE UNCHANGED <<stock, applied, failed>>
  /\ touched' = [touched EXCEPT ![i] = @ \cup {"products"}]
  /\ IF idx[i] = Len(request[i].items)
       THEN /\ Return(i, SuccessResponse(NewOrder(order[i], request[i], user[i],
                                                   totalAmount[i])))
            /\ UNCHANGED idx
       ELSE /\ idx' = [idx EXCEPT ![i] = @ + 1]
            /\ UNCHANGED <<pc, resp>>
  /\ UNCHANGED <<price, orders, order_items, nextOrderId, request, user, products,
                 totalAmount, order, stock0>>

\* The invocation is cut off between two store calls: the caller
\* disconnects or the function instance stops.  Nothing more of it runs.
Abort(i) ==
  /\ pc[i] \notin {"idle", "done", "aborted"}
  /\ pc' = [pc EXCEPT ![i] = "aborted"]
  /\ UNCHANGED <<store, locals, resp, stock0, history, ui>>

\* An administrator changes the price of a product (catalog management).
AdminSetPrice(p, v) ==
  /\ v # price[p]
  /\ v >= 0
  /\ price' = [price EXCEPT ![p] = v]
  /\ UNCHANGED <<stock, orders, order_items, nextOrderId, pc, locals, resp, stock0, history, ui>>

\* ------------------------------------------------- ProductDetails actions
\* fetchProduct: the product row of id p is loaded, or the select fails or
\* finds no row and product stays null.
FetchProduct(p) ==
  /\ detailsLoading
  /\ \E ok \in BOOLEAN :
       product' = IF ok THEN [id |-> p, stock |-> stock[p]] ELSE product
  /\ detailsLoading' = FALSE
  /\ UNCHANGED <<store, pc, locals, resp, stock0, history, quantity, added, alerted, checkout>>

\* The '-' button: setQuantity(Math.max(1, quantity - 1)).
ClickMinus ==
  /\ ControlsShown
  /\ quantity' = Max(1, quantity - 1)
  /\ UNCHANGED <<store, pc, locals, resp, stock0, history, product, detailsLoading, added,
                 alerted, checkout>>

\* The '+' button: setQuantity(Math.min(product.stock, quantity + 1)).
ClickPlus ==
  /\ ControlsShown
  /\ quantity' = Min(product.stock, quantity + 1)
  /\ UNCHANGED <<store, pc, locals, resp, stock0, history, product, detailsLoading, added,
                 alerted, checkout>>

\* The input's onChange: setQuantity(Math.max(1, parseInt(e.target.value) || 1)).
TypeQuantity(t) ==
  /\ ControlsShown
  /\ quantity' = Max(1, OrOne(ParseInt(t)))
  /\ UNCHANGED <<store, pc, locals, resp, stock0, history, product, detailsLoading, added,
                 alerted, checkout>>

\* A click on the Add to Cart button: handleAddToCart.
ClickAddToCart ==
  /\ ControlsShown
  /\ AddToCartEnabled
  /\ IF SufficientStock(product, quantity)
       THEN added' = added \cup {quantity} /\ alerted' = "added"
       ELSE alerted' = "insufficient" /\ UNCHANGED added
  /\ UNCHANGED <<store, pc, locals, resp, stock0, history, product, detailsLoading, quantity,
                 checkout>>

\* ------------------------------------------------------ CartPage actions
\* The cart page is opened with the cart and the user of the contexts.
OpenCartPage(c, u) ==
  /\ page = "home"
  /\ cart' = c
  /\ cart0' = c
  /\ authUser' = u
  /\ page' = "cart"
  /\ UNCHANGED <<store, pc, locals, resp, stock0, history, details, alerted, session, loading,
                 cpc, pending, delivered, cleared>>

\* A click on the checkout button: handleCheckout up to its first await.
ClickCheckout ==
  /\ page = "cart"
  /\ CheckoutEnabled
  /\ cpc[NextRun] = "unused"
  /\ IF authUser = "none"
       THEN alerted' = "login" /\ page' = "login" /\ UNCHANGED <<loading, cpc>>
     ELSE IF Len(cart) = 0
       THEN alerted' = "empty" /\ UNCHANGED <<page, loading, cpc>>
     ELSE /\ loading' = TRUE
          /\ cpc' = [cpc EXCEPT ![NextRun] = "session"]
          /\ UNCHANGED <<alerted, page>>
  /\ UNCHANGED <<store, pc, locals, resp, stock0, history, details, cart, cart0, authUser,
                 session, pending, delivered, cleared>>

\* The catch block and the finally block of handleCheckout.
Catch(i) ==
  /\ alerted' = "retry"
  /\ loading' = FALSE
  /\ cpc' = [cpc EXCEPT ![i] = "exited"]

\* await supabase.auth.getSession() and the session check.
GetSession(i) ==
  /\ cpc[i] = "session"
  /\ \E s \in Sessions \cup {"throws"} :
       IF s = "throws"
         THEN Catch(i) /\ UNCHANGED <<session, page>>
       ELSE IF s = "none"
         THEN /\ alerted' = "login"
              /\ page' = "login"
              /\ loading' = FALSE
              /\ cpc' = [cpc EXCEPT ![i] = "exited"]
              /\ UNCHANGED session
       ELSE /\ session' = [session EXCEPT ![i] = s]
            /\ cpc' = [cpc EXCEPT ![i] = "fetch"]
            /\ UNCHANGED <<alerted, page, loading>>
  /\ UNCHANGED <<store, pc, locals, resp, stock0, history, details, cart, cart0, authUser,
                 pending, delivered, cleared>>

\* fetch(.../functions/v1/create-order): the request goes out.
SendRequest(i) ==
  /\ cpc[i] = "fetch"
  /\ Arrive(i, [token |-> session[i], body |-> "items", items |-> CartOrderItems(cart),
                claimed |-> "none"])
  /\ pending' = pending \cup {i}
  /\ cpc' = [cpc EXCEPT ![i] = "await"]
  /\ UNCHANGED <<details, alerted, cart, cart0, authUser, session, loading, page, delivered,
                 cleared>>

\* The fetch rejects: the network fails before a response arrives.
FetchThrows(i) ==
  /\ cpc[i] = "await"
  /\ Catch(i)
  /\ pending' = pending \ {i}
  /\ UNCHANGED <<store, pc, locals, resp, stock0, history, details, cart, cart0, authUser,
                 session, page, delivered, cleared>>

\* The response arrives: response.json(), the test of the result, finally.
ReceiveResponse(i) ==
  /\ cpc[i] = "await"
  /\ pc[i] = "done"
  /\ pending' = pending \ {i}
  /\ \E parsed \in BOOLEAN :
       IF ~parsed
         THEN Catch(i) /\ UNCHANGED <<cart, page, delivered, cleared>>
         ELSE /\ delivered' = delivered \cup {i}
              /\ loading' = FALSE
              /\ cpc' = [cpc EXCEPT ![i] = "exited"]
              /\ IF CheckoutConfirmed(resp[i])
                   THEN /\ alerted' = "success"
                        /\ cart' = <<>>
                        /\ cleared' = TRUE
                        /\ page' = "orders"
                   ELSE /\ alerted' = "error"
                        /\ UNCHANGED <<cart, page, cleared>>
  /\ UNCHANGED <<store, pc, locals, resp, stock0, history, details, cart0, authUser, session>>

Step(i) ==
  \/ Authenticate(i)
  \/ ParseItems(i)
  \/ FetchProducts(i)
  \/ InsertOrder(i)
  \/ InsertOrderItems(i)
  \/ DeleteOrder(i)
  \/ UpdateStock(i)

\* One invocation, any request.
Next ==
  \/ Receive("inv1", Requests)
  \/ Step("inv1")

Spec == Init /\ [][Next]_vars

\* Two invocations racing for the same catalog.
NextConc ==
  \/ \E i \in Procs : Receive(i, ConcRequests(i))
  \/ \E i \in Procs : Step(i)

SpecConc == Init /\ [][NextConc]_vars

\* One invocation that may be cut off at any of its awaits.
NextAbort ==
  \/ Receive("inv1", Requests)
  \/ Step("inv1")
  \/ Abort("inv1")

SpecAbort == Init /\ [][NextAbort]_vars

\* One invocation while the catalog prices change under it.
NextPrice ==
  \/ Receive("inv1", PriceRequests)
  \/ Step("inv1")
  \/ \E p \in Catalog, v \in PriceValues : AdminSetPrice(p, v)

SpecPrice == Init /\ [][NextPrice]_vars

\* One invocation whose entries carry figures of the caller's own.
NextFigures ==
  \/ Receive("inv1", FigureRequests)
  \/ Step("inv1")

SpecFigures == Init /\ [][NextFigures]_vars

\* The product details page of one product.
NextDetails ==
  \/ \E p \in Catalog : FetchProduct(p)
  \/ ClickMinus
  \/ ClickPlus
  \/ \E t \in TypedTexts : TypeQuantity(t)
  \/ ClickAddToCart

SpecDetails == Init /\ [][NextDetails]_vars

\* The cart page, its checkout runs and the function invocations they start.
NextCheckout ==
  \/ \E c \in Carts, u \in ClientUsers : OpenCartPage(c, u)
  \/ ClickCheckout
  \/ \E i \in Procs : GetSession(i)
  \/ \E i \in Procs : SendRequest(i)
  \/ \E i \in Procs : FetchThrows(i)
  \/ \E i \in Procs : ReceiveResponse(i)
  \/ \E i \in Procs : Step(i)

SpecCheckout == Init /\ [][NextCheckout]_vars

\* ------------------------------------------------ vocabulary of the claims
Returned(i) == pc[i] = "done"
Succeeded(i) == Returned(i) /\ resp[i].status = 200
Items(i) == request[i].items
HeaderExists(i) == \E o \in orders : o.id = order[i]
NoStoreFailure == \A i \in Procs : failed[i] = {} /\ resp[i].error # "FetchFailed"

\* The invocation was authenticated, had a non-empty list and got its
\* product rows back: the validation loop has run.
Validated(i) ==
  /\ Returned(i)
  /\ "products" \in touched[i]
  /\ resp[i].error # "FetchFailed"

\* Every requested quantity is a positive integer.
Positive(i) == \A k \in 1..Len(Items(i)) : Items(i)[k].quantity > 0

NothingWritten(i) ==
  /\ order[i] = 0
  /\ ~HeaderExists(i)
  /\ ItemsOf(order[i]) = {}
  /\ applied[i] = {}
  /\ touched[i] \subseteq {"products"}

RECURSIVE SoldFrom(_, _, _)
SoldFrom(rows, p, k) ==
  IF k > Len(rows) THEN 0
  ELSE (IF rows[k].product_id = p THEN rows[k].quantity ELSE 0) + SoldFrom(rows, p, k + 1)

CommittedOrderIds == {order[i] : i \in {j \in Procs : Succeeded(j) /\ HeaderExists(j)}}

CommittedItems == SelectSeq(order_items, LAMBDA r : r.order_id \in CommittedOrderIds)

RECURSIVE LineSumFrom(_, _, _)
LineSumFrom(rows, orderId, k) ==
  IF k > Len(rows) THEN 0
  ELSE (IF rows[k].order_id = orderId THEN rows[k].price * rows[k].quantity ELSE 0)
       + LineSumFrom(rows, orderId, k + 1)

\* ------------------------------------------------------------------ claims

\* C1: once an invocation (of positive quantities) has returned, either its
\* order header exists with one line item per requested entry and the stock
\* update of every entry has taken effect, or no header and no line item of
\* it exists and none of its stock updates has taken effect.
Atomicity ==
  \A i \in Procs :
    (Returned(i) /\ Positive(i)) =>
      \/ /\ HeaderExists(i)
         /\ Cardinality(ItemsOf(order[i])) = Len(Items(i))
         /\ applied[i] = 1..Len(Items(i))
      \/ /\ ~HeaderExists(i)
         /\ ItemsOf(order[i]) = {}
         /\ applied[i] = {}

\* C2: when a product starts with stock 1 and two invocations each ask for
\* one unit of it and no store call fails, exactly one of them answers 200
\* and the other answers 400 InsufficientStock.
NoOverAllocationUnderContention ==
  \A p \in Catalog :
    ( /\ stock0[p] = 1
      /\ NoStoreFailure
      /\ \A i \in Procs : Returned(i) /\ Items(i) = <<[product_id |-> p, quantity |-> 1]>> )
    => \E i \in Procs : \E j \in Procs \ {i} :
         /\ resp[i].status = 200
         /\ resp[j].status = 400
         /\ resp[j].error = "InsufficientStock"

\* C3: in runs without store failures, the quantities of the persisted line
\* items of committed orders that reference a product add up to at most the
\* stock the product started with.
NoJointOverAllocation ==
  NoStoreFailure =>
    \A p \in Catalog : SoldFrom(CommittedItems, p, 1) <= stock0[p]

\* C4: every product's stored stock is non-negative in every reachable state
\* of concurrent invocations.
NonNegativeStock == \A p \in Catalog : stock[p] >= 0

\* Two invocations have both written the stock of a product they read at the
\* same value, asking together for more than it had.
WitnessContendedStockWrites ==
  \E p \in Catalog :
    /\ \A i \in Procs : Succeeded(i) /\ applied[i] = {1} /\ Items(i)[1].product_id = p
                        /\ products[i][p].stock = stock0[p]
    /\ Items("inv1")[1].quantity + Items("inv2")[1].quantity > stock0[p]

\* C5: the total_amount of every committed order equals the sum of
\* price * quantity over its persisted line items, also when the request
\* repeats a product id.
TotalConservation ==
  \A i \in Procs :
    Succeeded(i) =>
      \A o \in orders :
        o.id = order[i] => o.total_amount = LineSumFrom(order_items, o.id, 1)

\* A committed order whose request names the same product twice.
WitnessCommittedDuplicate ==
  \E i \in Procs :
    /\ Succeeded(i) /\ HeaderExists(i)
    /\ Len(Items(i)) = 2
    /\ Items(i)[1].product_id = Items(i)[2].product_id
    /\ Cardinality(ItemsOf(order[i])) = 2

\* C6: if the order-header insert, the line-item insert or a stock update of
\* an invocation (of positive quantities) fails, the invocation answers 500
\* and no header, no line item and no stock change of it is persisted; this
\* already when the compensating delete itself does not fail.
CommitFailureLeavesNothing ==
  \A i \in Procs :
    ( /\ Returned(i) /\ Positive(i)
      /\ failed[i] \cap {"orders", "order_items", "products"} # {}
      /\ "delete" \notin failed[i] ) =>
      /\ resp[i].status = 500
      /\ ~HeaderExists(i)
      /\ ItemsOf(order[i]) = {}
      /\ applied[i] = {}

\* Position of the first entry naming a product that was not read, and of
\* the first entry asking for more than the stock read (0: no such entry).
FirstMissing(i) ==
  LET ks == {k \in 1..Len(Items(i)) : Items(i)[k].product_id \notin DOMAIN products[i]}
  IN IF ks = {} THEN 0 ELSE CHOOSE k \in ks : \A j \in ks : k <= j

FirstShort(i) ==
  LET ks == {k \in 1..Len(Items(i)) :
               /\ Items(i)[k].product_id \in DOMAIN products[i]
               /\ Items(i)[k].quantity > products[i][Items(i)[k].product_id].stock}
  IN IF ks = {} THEN 0 ELSE CHOOSE k \in ks : \A j \in ks : k <= j

\* Every entry that names a catalog product asks for a positive quantity
\* within the stock read.
OthersValid(i) ==
  \A k \in 1..Len(Items(i)) :
    Items(i)[k].product_id \in DOMAIN products[i] =>
      /\ Items(i)[k].quantity > 0
      /\ Items(i)[k].quantity <= products[i][Items(i)[k].product_id].stock

\* C7: a validated request that names a product absent from the catalog
\* among otherwise valid entries is answered 404 ProductNotFound, and it
\* leaves no order row, no line item and no stock change.
ProductNotFoundNoSideEffects ==
  \A i \in Procs :
    (Validated(i) /\ FirstMissing(i) > 0 /\ OthersValid(i)) =>
      /\ resp[i].status = 404
      /\ resp[i].error = "ProductNotFound"
      /\ NothingWritten(i)
      /\ orders = {} /\ order_items = <<>> /\ stock = stock0

\* The request [{existing, 1}, {nonexistent, 1}] has been answered.
WitnessExistingThenMissing ==
  \E i \in Procs :
    /\ Validated(i)
    /\ Len(Items(i)) = 2
    /\ Items(i)[1].product_id \in Catalog /\ Items(i)[1].quantity = 1
    /\ products[i][Items(i)[1].product_id].stock >= 1
    /\ Items(i)[2].product_id \notin Catalog /\ Items(i)[2].quantity = 1
    /\ resp[i].status = 404

\* C8 as stated: a validated request of positive quantities with an entry
\* asking for more than the stock read is answered 400 InsufficientStock and
\* writes nothing.
NoPartialFulfilmentAlways400 ==
  \A i \in Procs :
    (Validated(i) /\ Positive(i) /\ FirstShort(i) > 0) =>
      /\ resp[i].status = 400
      /\ resp[i].error = "InsufficientStock"
      /\ NothingWritten(i)

\* C8 amended: such a request writes nothing and is answered 400
\* InsufficientStock, unless an entry naming a product absent from the
\* catalog comes before the first over-asking entry, and then 404
\* ProductNotFound.
NoPartialFulfilment ==
  \A i \in Procs :
    (Validated(i) /\ FirstShort(i) > 0) =>
      /\ NothingWritten(i)
      /\ stock = stock0 /\ orders = {} /\ order_items = <<>>
      /\ IF FirstMissing(i) > 0 /\ FirstMissing(i) < FirstShort(i)
           THEN resp[i].status = 404 /\ resp[i].error = "ProductNotFound"
           ELSE resp[i].status = 400 /\ resp[i].error = "InsufficientStock"

\* A satisfiable entry followed by an over-asking one has been refused.
WitnessSatisfiableThenShort ==
  \E i \in Procs :
    /\ Validated(i)
    /\ FirstShort(i) = 2
    /\ Items(i)[1].product_id \in Catalog
    /\ Items(i)[1].product_id # Items(i)[2].product_id
    /\ Items(i)[1].quantity > 0
    /\ resp[i].status = 400

\* C9: an authenticated request with an entry of zero or negative quantity
\* (all its products in the catalog, the catalog read answered) never gets
\* as far as a write to orders or order_items, and is answered 400.
NonPositiveQuantityRejected ==
  \A i \in Procs :
    ( /\ user[i] # "none"
      /\ \E k \in 1..Len(Items(i)) : Items(i)[k].quantity <= 0
      /\ ProductIdsOf(Items(i)) \subseteq Catalog
      /\ resp[i].error # "FetchFailed" )
    => /\ touched[i] \subseteq {"products"}
       /\ Returned(i) => resp[i].status = 400

\* C10 as stated: a validated request of positive quantities naming a
\* product absent from the catalog is answered 404 ProductNotFound naming a
\* missing id, wherever the missing id stands in the list.
MissingProductAlways404 ==
  \A i \in Procs :
    (Validated(i) /\ Positive(i) /\ FirstMissing(i) > 0) =>
      /\ resp[i].status = 404
      /\ resp[i].error = "ProductNotFound"
      /\ resp[i].product \notin Catalog

\* C10 amended: such a request is refused and writes nothing; the first
\* entry in list order that fails its check decides the answer: 404 naming
\* the first missing id, unless an earlier entry asks for more than the
\* stock read, and then 400 InsufficientStock for that entry's product.
FirstFailingEntryDecides ==
  \A i \in Procs :
    (Validated(i) /\ FirstMissing(i) > 0) =>
      /\ NothingWritten(i)
      /\ IF FirstShort(i) > 0 /\ FirstShort(i) < FirstMissing(i)
           THEN /\ resp[i].status = 400
                /\ resp[i].error = "InsufficientStock"
                /\ resp[i].product = Items(i)[FirstShort(i)].product_id
           ELSE /\ resp[i].status = 404
                /\ resp[i].error = "ProductNotFound"
                /\ resp[i].product = Items(i)[FirstMissing(i)].product_id

\* An over-asking entry followed by a missing product has been answered.
WitnessShortThenMissing ==
  \E i \in Procs :
    /\ Validated(i)
    /\ FirstShort(i) = 1
    /\ FirstMissing(i) = 2
    /\ resp[i].status = 400

\* The request names some product in more than one entry.
Repeats(i) ==
  \E j \in 1..Len(Items(i)) : \E k \in 1..Len(Items(i)) :
    j < k /\ Items(i)[j].product_id = Items(i)[k].product_id

\* The line items of the invocation's order, in insertion order.
LinesOf(i) == SelectSeq(order_items, LAMBDA r : r.order_id = order[i])

\* C11: an authenticated invocation whose body parses and whose items list
\* is empty or absent reads and writes no product, order or line-item row,
\* and answers 400 (cart is empty).
EmptyRequestFailsFast ==
  \A i \in Procs :
    ( /\ user[i] # "none"
      /\ request[i].body # "malformed"
      /\ (request[i].body = "no_items" \/ Len(Items(i)) = 0) )
    => /\ touched[i] = {}
       /\ orders = {} /\ order_items = <<>> /\ stock = stock0
       /\ Returned(i) => (resp[i].status = 400 /\ resp[i].error = "CartEmpty")

\* An authenticated request with an empty items array has been answered.
WitnessEmptyListAnswered ==
  \E i \in Procs :
    /\ Returned(i)
    /\ user[i] # "none"
    /\ request[i].body = "items" /\ Len(Items(i)) = 0
    /\ resp[i].status = 400

\* C12: when a request that repeats a product id, asking in sum for no more
\* than the stock, succeeds (no store call failing), every product's stock
\* equals its stock before the order minus the sum of the quantities of the
\* entries that name it.
DuplicatesReduceStockBySum ==
  \A i \in Procs :
    ( /\ Succeeded(i) /\ failed[i] = {} /\ Repeats(i)
      /\ \A p \in Catalog : AskedFrom(Items(i), p, 1) <= stock0[p] ) =>
      \A p \in Catalog : stock[p] = stock0[p] - AskedFrom(Items(i), p, 1)

\* C13: a successful request has exactly one persisted line item per entry,
\* in list order, with that entry's product and own quantity and the price
\* read for the product; also when it repeats a product id.
DuplicatesKeptSeparate ==
  \A i \in Procs :
    Succeeded(i) =>
      /\ Len(LinesOf(i)) = Len(Items(i))
      /\ \A k \in 1..Len(Items(i)) :
           /\ LinesOf(i)[k].product_id = Items(i)[k].product_id
           /\ LinesOf(i)[k].quantity = Items(i)[k].quantity
           /\ LinesOf(i)[k].price = products[i][Items(i)[k].product_id].price

\* A request with two entries of different quantities for one product has
\* succeeded.
WitnessRepeatedDifferentQuantities ==
  \E i \in Procs :
    /\ Succeeded(i)
    /\ Len(Items(i)) = 2
    /\ Items(i)[1].product_id = Items(i)[2].product_id
    /\ Items(i)[1].quantity # Items(i)[2].quantity
    /\ Len(LinesOf(i)) = 2

\* C14 as stated: every persisted order has at most one line item per
\* product.
OneLineItemPerProduct ==
  \A o \in orders : \A p \in Catalog :
    Cardinality({k \in ItemsOf(o.id) : order_items[k].product_id = p}) <= 1

\* C14 amended: an order whose line items are persisted has, for every
\* product, as many line items as its request has entries naming the
\* product: at most one only when the request does not repeat the product.
LineItemsMatchEntries ==
  \A i \in Procs :
    ItemsOf(order[i]) # {} =>
      \A p \in ProductIds :
        Cardinality({k \in ItemsOf(order[i]) : order_items[k].product_id = p})
          = Cardinality({k \in 1..Len(Items(i)) : Items(i)[k].product_id = p})

\* A persisted order holds two line items for the same product.
WitnessTwoLinesOneProduct ==
  \E o \in orders : \E p \in Catalog :
    Cardinality({k \in ItemsOf(o.id) : order_items[k].product_id = p}) = 2

\* Cost of a request at given unit prices.
RECURSIVE CostFrom(_, _, _)
CostFrom(items, prices, k) ==
  IF k > Len(items) THEN 0
  ELSE prices[items[k].product_id] * items[k].quantity + CostFrom(items, prices, k + 1)

\* The unit prices the invocation got from its products select.
ReadPrices(i) == [p \in DOMAIN products[i] |-> products[i][p].price]

\* C15: every persisted line item carries the price that the invocation's
\* products select returned and the order total is the cost at those
\* prices, whatever the catalog price is by then; and a step that changes a
\* catalog price changes no order and no line item.
PriceFixedAtRead ==
  /\ [](\A i \in Procs :
          /\ \A k \in ItemsOf(order[i]) :
               order_items[k].price = products[i][order_items[k].product_id].price
          /\ \A o \in orders :
               o.id = order[i] => o.total_amount = CostFrom(Items(i), ReadPrices(i), 1))
  /\ [][price' # price => (orders' = orders /\ order_items' = order_items)]_vars

\* An order has succeeded whose line item carries a price that is not the
\* catalog price of its product any more.
WitnessPriceMovedAway ==
  \E i \in Procs : \E k \in ItemsOf(order[i]) :
    /\ Succeeded(i)
    /\ order_items[k].price # price[order_items[k].product_id]

\* C16: an invocation (of positive quantities, no store call failing) that
\* was cut off leaves no order header, no line item and no stock change.
AbortLeavesNothing ==
  \A i \in Procs :
    (pc[i] = "aborted" /\ Positive(i) /\ failed[i] = {}) =>
      /\ ~HeaderExists(i)
      /\ ItemsOf(order[i]) = {}
      /\ applied[i] = {}

\* C17: in every state every persisted order header has one line item per
\* requested entry.
NoPartialOrderVisible ==
  \A i \in Procs :
    HeaderExists(i) => Cardinality(ItemsOf(order[i])) = Len(Items(i))

\* C18: an authenticated request naming distinct catalog products, each in a
\* positive quantity within the stock, with no store call failing, is
\* answered 200; the order total is the sum of price * quantity and every
\* product's stock is its prior stock minus the quantity asked of it.
SequentialSuccess ==
  \A i \in Procs :
    ( /\ Returned(i)
      /\ user[i] # "none"
      /\ request[i].body = "items" /\ Len(Items(i)) > 0
      /\ failed[i] = {} /\ resp[i].error # "FetchFailed"
      /\ ~Repeats(i)
      /\ \A k \in 1..Len(Items(i)) :
           /\ Items(i)[k].product_id \in Catalog
           /\ Items(i)[k].quantity > 0
           /\ Items(i)[k].quantity <= stock0[Items(i)[k].product_id] )
    => /\ resp[i].status = 200
       /\ \E o \in orders :
            o.id = order[i] /\ o.total_amount = CostFrom(Items(i), SeedPrice, 1)
       /\ \A p \in Catalog : stock[p] = stock0[p] - AskedFrom(Items(i), p, 1)

\* An order for two different products has gone through and the whole stock
\* of one of them is sold.
WitnessTwoProductsBought ==
  \E i \in Procs :
    /\ Succeeded(i)
    /\ Len(Items(i)) = 2 /\ ~Repeats(i)
    /\ applied[i] = {1, 2}
    /\ \E p \in Catalog : stock0[p] = MaxStock /\ stock[p] = 0

\* C19: a 200 response has success = true and carries the persisted order
\* header of the invocation: status pending, user_id the user resolved from
\* the bearer token, total_amount the cost at the read prices.
SuccessShape ==
  \A i \in Procs :
    Succeeded(i) =>
      /\ resp[i].success
      /\ resp[i].order \in orders
      /\ resp[i].order.id = order[i]
      /\ resp[i].order.status = "pending"
      /\ resp[i].order.user_id = UserOf(request[i].token)
      /\ resp[i].order.total_amount = CostFrom(Items(i), ReadPrices(i), 1)

\* A request whose body names another user than its token has succeeded.
WitnessClaimedOtherUser ==
  \E i \in Procs :
    /\ Succeeded(i)
    /\ request[i].claimed # "none"
    /\ request[i].claimed # UserOf(request[i].token)

\* C20: an invocation without Authorization header, or whose token resolves
\* to no user, reads and writes no product, order or line-item row, and
\* answers 401 whatever its item list.
UnauthenticatedTouchNothing ==
  \A i \in Procs :
    (pc[i] # "idle" /\ UserOf(request[i].token) = "none") =>
      /\ touched[i] = {}
      /\ orders = {} /\ order_items = <<>> /\ stock = stock0
      /\ Returned(i) => resp[i].status = 401

\* A request with an unknown token and a non-empty item list was answered.
WitnessBadTokenWithItems ==
  \E i \in Procs :
    /\ Returned(i)
    /\ request[i].token = "bad"
    /\ Len(Items(i)) > 0
    /\ resp[i].status = 401

\* The order of the invocation is fully persisted: its header, one line item
\* per requested entry, and the stock update of every entry.
FullyConfirmed(i) ==
  /\ HeaderExists(i)
  /\ Cardinality(ItemsOf(order[i])) = Len(Items(i))
  /\ applied[i] = 1..Len(Items(i))

\* C21: an invocation (of positive quantities) that has returned carries one
\* response with a status among 200, 400, 401, 404, 500; a 200 response is
\* given only for a fully confirmed order, and every other response carries
\* an error message.
NoMaybeOutcome ==
  \A i \in Procs :
    (Returned(i) /\ Positive(i)) =>
      /\ resp[i].status \in {200, 400, 401, 404, 500}
      /\ resp[i].status = 200 => FullyConfirmed(i)
      /\ resp[i].status # 200 => resp[i].error # "none"


\* The entries of a request with nothing but product_id and quantity.
Plain(items) ==
  [k \in 1..Len(items) |-> [product_id |-> items[k].product_id, quantity |-> items[k].quantity]]

\* C22: the outcome of an invocation is the one its request stripped of every
\* field but product_id and quantity would have, so two requests that
\* differ in those other fields only have the same outcome: the rows read
\* are the catalog's, the refusal (status, product, available) is the one
\* the stripped entries get, the order total and the line items are those
\* of the stripped entries at the read prices, and every stock written is
\* the read stock minus the entry's quantity.
CallerFiguresNotTrusted ==
  \A i \in Procs :
    LET plain == Plain(Items(i))
    IN /\ \A p \in DOMAIN products[i] :
            products[i][p] = [stock |-> stock0[p], price |-> SeedPrice[p]]
       /\ Validate(Items(i), products[i]) = Validate(plain, products[i])
       /\ (Validated(i) /\ order[i] = 0 /\ failed[i] = {}) =>
            resp[i] = Validate(plain, products[i])
       /\ \A o \in orders :
            o.id = order[i] => o.total_amount = CostFrom(plain, SeedPrice, 1)
       /\ ItemsOf(order[i]) # {} => LinesOf(i) = OrderItems(plain, products[i], order[i])
       /\ \A k \in applied[i] :
            (\A j \in applied[i] : j <= k) =>
              stock[plain[k].product_id] = stock0[plain[k].product_id] - plain[k].quantity
       /\ (Returned(i) /\ failed[i] = {} /\ resp[i].error # "FetchFailed") =>
            (resp[i].status = 200 <=>
               \A k \in 1..Len(plain) : plain[k].quantity <= stock0[plain[k].product_id])

\* An order of two entries has gone through whose entries claimed prices
\* that differ from each other and from the catalog's.
WitnessForgedPriceOrdered ==
  \E i \in Procs :
    /\ Succeeded(i)
    /\ Len(Items(i)) = 2
    /\ Items(i)[1].price # Items(i)[2].price
    /\ \A k \in 1..2 : Items(i)[k].price # SeedPrice[Items(i)[k].product_id]
    /\ Len(LinesOf(i)) = 2

\* C23: no step of an invocation changes a catalog price or the set of
\* product rows; a step changes the stock of a product only as the stock
\* update of an entry naming that product; and an invocation that returned
\* without having inserted an order header has changed no stock at all.
CatalogFrame ==
  /\ [](/\ price = SeedPrice
        /\ DOMAIN stock = Catalog /\ DOMAIN price = Catalog
        /\ \A i \in Procs : (Returned(i) /\ order[i] = 0) => stock = stock0
        /\ \A p \in Catalog : p \notin ProductIdsOf(Items("inv1")) => stock[p] = stock0[p])
  /\ [][/\ price' = price
        /\ \A p \in Catalog :
             stock'[p] # stock[p] =>
               \E i \in Procs : /\ pc[i] = "update_stock"
                                /\ Items(i)[idx[i]].product_id = p]_vars

\* An order naming one product has gone through: the stock of that product
\* has changed and the stock of the other has not.
WitnessOnlyNamedStockChanged ==
  \E i \in Procs : \E p \in Catalog :
    /\ Succeeded(i)
    /\ ProductIdsOf(Items(i)) = {p}
    /\ stock[p] # stock0[p]
    /\ \A q \in Catalog \ {p} : stock0[q] > 0 /\ stock[q] = stock0[q]

\* C24: when the line-item insert of an invocation (of positive quantities)
\* fails after its order header was inserted, the invocation answers 500, none of its stock
\* updates takes effect, no order header of it remains and every stock
\* equals its value before the invocation.
FailedItemsInsertCompensated ==
  \A i \in Procs :
    (Returned(i) /\ Positive(i) /\ "order_items" \in failed[i]) =>
      /\ resp[i].status = 500
      /\ applied[i] = {}
      /\ ~HeaderExists(i)
      /\ stock = stock0

\* C25: an invocation whose catalog read fails or whose order-header insert
\* fails answers 500 and has persisted no order header, no line item and no
\* stock change.
EarlyFailureWritesNothing ==
  \A i \in Procs :
    (Returned(i) /\ (resp[i].error = "FetchFailed" \/ "orders" \in failed[i])) =>
      /\ resp[i].status = 500
      /\ order[i] = 0
      /\ orders = {} /\ order_items = <<>>
      /\ applied[i] = {} /\ stock = stock0

\* A header insert that the store refused after a successful validation of
\* a request of positive quantities.
WitnessHeaderInsertFailed ==
  \E i \in Procs :
    /\ Returned(i)
    /\ "orders" \in failed[i]
    /\ Positive(i)
    /\ resp[i].error = "OrderFailed"

\* C26: in every reachable state every persisted line item has a quantity
\* above zero and a unit price of at least zero, and every persisted order a
\* total_amount of at least zero, whatever the request holds.
LedgerRowConstraints ==
  /\ \A k \in 1..Len(order_items) : order_items[k].quantity > 0 /\ order_items[k].price >= 0
  /\ \A o \in orders : o.total_amount >= 0

\* A request with an entry of zero or negative quantity got as far as the
\* line-item insert, which the table refused.
WitnessNonPositiveLineRefused ==
  \E i \in Procs :
    /\ Returned(i)
    /\ \E k \in 1..Len(Items(i)) : Items(i)[k].quantity <= 0
    /\ "order_items" \in failed[i]
    /\ order[i] # 0

\* C27: after any sequence of '-' clicks, '+' clicks and typed inputs the
\* selected quantity is at least 1, whatever the stock of the loaded product.
QuantityAtLeastOne == quantity >= 1

\* C28: addToCart is called only with a quantity between 1 and the stock of
\* the loaded product; a click with a quantity above the stock adds
\* nothing; with a stock of 0 the button is disabled and addToCart is
\* never called.
AddToCartWithinStock ==
  /\ [](/\ \A q \in added : 1 <= q /\ q <= product.stock
        /\ product.stock = 0 => added = {})
  /\ [][quantity > product.stock => added' = added]_vars

\* The page has refused a typed quantity above the stock after it had added
\* the whole stock to the cart.
WitnessOverAskRefused ==
  /\ ControlsShown
  /\ product.stock = MaxStock
  /\ product.stock \in added
  /\ quantity > product.stock
  /\ alerted = "insufficient"

\* A handleCheckout run stands between setLoading(true) and its exit.
Running(i) == cpc[i] \in {"session", "fetch", "await"}

\* C29: clearCart has been called if and only if a response arrived and
\* parsed that is an OK response with success = true; then the cart is empty
\* and the page is 'orders', and otherwise the cart is as it was; a request
\* was sent only with a user, a non-empty cart and a session.
ClearOnlyOnSuccess ==
  /\ cleared <=> \E i \in delivered : resp[i].status \in 200..299 /\ resp[i].success
  /\ cleared => (cart = <<>> /\ page = "orders")
  /\ ~cleared => (cart = cart0 /\ page # "orders")
  /\ \A i \in Procs :
       pc[i] # "idle" => (authUser # "none" /\ Len(cart0) > 0 /\ session[i] # "none")

\* A checkout was answered with an error, the cart was kept, and a second
\* checkout of the same cart went through and cleared it.
WitnessClearedAtSecondTry ==
  /\ delivered = Procs
  /\ resp["inv1"].status = 500
  /\ resp["inv2"].status = 200
  /\ cleared

\* C30: loading is true exactly while a handleCheckout run stands between
\* setLoading(true) and its exit, whichever the exit; at most one run does,
\* and at most one create-order request of the page is in flight.
InFlightFlag ==
  /\ loading <=> \E i \in Procs : Running(i)
  /\ Cardinality({i \in Procs : Running(i)}) <= 1
  /\ Cardinality(pending) <= 1
  /\ pending # {} => loading

\* The fetch of a first checkout has failed while the function still works
\* on it, and the request of a second checkout is in flight.
WitnessSecondRequestInFlight ==
  /\ cpc["inv1"] = "exited"
  /\ pc["inv1"] \notin {"idle", "done"}
  /\ pending = {"inv2"}
  /\ loading

\* ------------------------------------------------------------------- types
TypeOK ==
  /\ stock \in [Catalog -> Int]
  /\ \A i \in Procs : resp[i].status \in {0, 200, 400, 401, 404, 500}
  /\ \A i \in Procs : pc[i] \in {"idle", "auth", "parse", "fetch", "insert_order",
                                  "insert_items", "delete_order", "update_stock", "done",
                                  "aborted"}
  /\ quantity \in Int
  /\ loading \in BOOLEAN /\ detailsLoading \in BOOLEAN /\ cleared \in BOOLEAN
  /\ \A i \in Procs : cpc[i] \in {"unused", "session", "fetch", "await", "exited"}
  /\ page \in {"home", "cart", "login", "orders"}
  /\ pending \subseteq Procs /\ delivered \subseteq Procs
====
